---- MODULE Spec2Model ----
(***************************************************************************)
(* Model of solidlsp/language_servers/luau_lsp.py: the luau-lsp adapter.   *)
(*                                                                         *)
(* Three specifications share the variables:                                 *)
(*   Spec      - the construction path: binary locator, binary installer,  *)
(*               Roblox asset fetcher and launch-command construction,     *)
(*               over a nondeterministic platform, file system and network.*)
(*   StartSpec - _start_server of one constructed adapter, interleaved     *)
(*               with the client's reader thread delivering                *)
(*               window/logMessage notifications.                          *)
(*   LiveSpec  - StartSpec with weak fairness of the startup thread.       *)
(***************************************************************************)
EXTENDS Integers, Sequences, FiniteSets, TLC

VARIABLES
    system,        \* platform.system()
    machine,       \* platform.machine(), as reported (case preserved)
    files,         \* paths of the files that exist
    xbit,          \* files carrying the executable permission bit
    dirs,          \* directories that exist (install tree only)
    calls,         \* number of calls made so far into the setup path
    last,          \* what the last call did and returned
    fetched,       \* assets some earlier call fetched and cached successfully
    adapter,       \* "none" | "constructed" | "failed"
    cmd,           \* ProcessLaunchInfo.cmd of the constructed adapter
    server_ready,  \* self.server_ready (threading.Event flag)
    pc,            \* position of the startup thread in _start_server
    handlers,      \* methods registered on self.server
    started,       \* the subprocess (and the reader thread) is running
    init_response, \* the "capabilities" keys of the initialize response
    sent,          \* client -> server traffic, in order
    waitResult,    \* what server_ready.wait(timeout=5.0) returned
    nmsgs,         \* window/logMessage notifications delivered so far
    delivered      \* the notifications delivered, each with the phase
                   \* of the startup thread at its delivery

vars == <<system, machine, files, xbit, dirs, calls, last, fetched, adapter,
          cmd, server_ready, pc, handlers, started, init_response, sent,
          waitResult, nmsgs, delivered>>

envVars   == <<system, machine>>
fsVars    == <<files, xbit, dirs>>
setupVars == <<calls, last, fetched, adapter, cmd>>
startVars == <<server_ready, pc, handlers, started, init_response, sent,
               waitResult, nmsgs, delivered>>

(***************************************************************************)
(* Bounds                                                                  *)
(***************************************************************************)
MaxInitFiles == 2   \* files present before the first call
MaxCalls     == 2   \* calls into the setup path
MaxMsgs      == 2   \* window/logMessage notifications delivered

(***************************************************************************)
(* Program constants                                                       *)
(***************************************************************************)
LUAU_LSP_VERSION == "1.57.1"
ROBLOX_TYPES_URL == "https://luau-lsp.pages.dev/type-definitions/globalTypes.PluginSecurity.d.luau"
ROBLOX_DOCS_URL  == "https://luau-lsp.pages.dev/api-docs/en-us.json"

None == "<None>"

Range(s) == {s[i] : i \in 1..Len(s)}

(***************************************************************************)
(* str.lower() and the `in` operator on strings                            *)
(***************************************************************************)
UpperLetters == "ABCDEFGHIJKLMNOPQRSTUVWXYZ"
LowerLetters == "abcdefghijklmnopqrstuvwxyz"

UpperSet == {SubSeq(UpperLetters, i, i) : i \in 1..26}

LowerOf ==
    [c \in UpperSet |->
        LET i == CHOOSE j \in 1..26 : SubSeq(UpperLetters, j, j) = c
        IN  SubSeq(LowerLetters, i, i)]

LowerChar(c) == IF c \in UpperSet THEN LowerOf[c] ELSE c

RECURSIVE Lower(_)
Lower(s) ==
    IF Len(s) = 0 THEN ""
    ELSE LowerChar(SubSeq(s, 1, 1)) \o Lower(SubSeq(s, 2, Len(s)))

Contains(s, sub) ==
    \E i \in 1..(Len(s) - Len(sub) + 1) : SubSeq(s, i, i + Len(sub) - 1) = sub

(***************************************************************************)
(* Paths                                                                   *)
(***************************************************************************)
HomeDir    == "~"
InstallDir == HomeDir \o "/.serena/language_servers/luau"
SubDir     == InstallDir \o "/luau-lsp-release"
PathDirs   == <<"/usr/local/bin", "/usr/bin">>   \* the directories on PATH

DefinitionsPath == InstallDir \o "/globalTypes.d.luau"
DocsPath        == InstallDir \o "/en-us.json"

\* os.access(p, X_OK): Windows has no execute bit, existence suffices there
Executable(sys, fs, xb, p) == p \in fs /\ (sys = "Windows" \/ p \in xb)

\* shutil.which("luau-lsp"): the first PATH entry that exists and is
\* executable; on Windows the PATHEXT extension is appended.
WhichName(sys) == IF sys = "Windows" THEN "luau-lsp.exe" ELSE "luau-lsp"

PathEntriesOf(name) ==
    [i \in 1..Len(PathDirs) |-> PathDirs[i] \o "/" \o name]

PathEntriesWindows == PathEntriesOf("luau-lsp.exe")
PathEntriesPosix   == PathEntriesOf("luau-lsp")

PathEntries(sys) ==
    IF WhichName(sys) = "luau-lsp.exe" THEN PathEntriesWindows
    ELSE PathEntriesPosix

Which(sys, fs, xb) ==
    LET ents == PathEntries(sys)
        hits == {i \in 1..Len(ents) : Executable(sys, fs, xb, ents[i])}
    IN  IF hits = {} THEN None
        ELSE ents[CHOOSE i \in hits : \A j \in hits : i <= j]

\* possible_paths, common part and the three platform-specific extensions
CommonPaths ==
    << InstallDir \o "/luau-lsp",
       HomeDir \o "/.local/bin/luau-lsp",
       "/usr/local/bin/luau-lsp" >>

WindowsPaths ==
    CommonPaths \o << InstallDir \o "/luau-lsp.exe",
                      HomeDir \o "/AppData/Local/luau-lsp/luau-lsp.exe" >>

DarwinPaths ==
    CommonPaths \o << "/opt/homebrew/bin/luau-lsp",
                      HomeDir \o "/.aftman/bin/luau-lsp" >>

OtherPaths == Append(CommonPaths, HomeDir \o "/.aftman/bin/luau-lsp")

PossiblePaths(sys) ==
    IF sys = "Windows" THEN WindowsPaths
    ELSE IF sys = "Darwin" THEN DarwinPaths
    ELSE OtherPaths

\* the loop over possible_paths: first existing match wins
FirstExisting(paths, fs) ==
    LET hits == {i \in 1..Len(paths) : paths[i] \in fs}
    IN  IF hits = {} THEN None
        ELSE paths[CHOOSE i \in hits : \A j \in hits : i <= j]

GetLuauLspPathSkipsWhich(sys, fs, xb) ==
    LET p == FirstExisting(PossiblePaths(sys), fs)
    IN  IF p # None THEN [path |-> p, src |-> "known"]
        ELSE [path |-> None, src |-> "none"]

\* _get_luau_lsp_path: [path, src], src in "PATH" | "known" | "none"
GetLuauLspPath(sys, fs, xb) ==
    LET luau_lsp == Which(sys, fs, xb)
    IN  IF luau_lsp # None
        THEN [path |-> luau_lsp, src |-> "PATH"]
        ELSE LET p == FirstExisting(PossiblePaths(sys), fs)
             IN  IF p # None THEN [path |-> p, src |-> "known"]
                 ELSE [path |-> None, src |-> "none"]

(***************************************************************************)
(* Binary installer: _download_luau_lsp                                    *)
(***************************************************************************)
ErrLinuxArch == "Unsupported Linux architecture"
ErrOS        == "Unsupported operating system"
ErrHTTP      == "HTTPError"
ErrZip       == "BadZipFile"
ErrNotFound  == "Failed to find luau-lsp executable after extraction"

\* what the release server and the archive do on a download
BinOutcomes == {"http_error", "bad_zip", "zip_top", "zip_sub", "zip_nobin"}

AssetNameAnyArch(sys, mach) ==
    IF sys = "Linux" THEN "luau-lsp-linux-x86_64.zip"
    ELSE IF sys = "Darwin"  THEN "luau-lsp-macos.zip"
    ELSE IF sys = "Windows" THEN "luau-lsp-win64.zip"
    ELSE None

\* the platform -> asset mapping; None where the code raises
AssetName(sys, mach) ==
    LET m == Lower(mach)
    IN  IF sys = "Linux"
        THEN IF m \in {"x86_64", "amd64"} THEN "luau-lsp-linux-x86_64.zip"
             ELSE None
        ELSE IF sys = "Darwin"  THEN "luau-lsp-macos.zip"
        ELSE IF sys = "Windows" THEN "luau-lsp-win64.zip"
        ELSE None

PlatformError(sys) == IF sys = "Linux" THEN ErrLinuxArch ELSE ErrOS

DownloadUrlLatest(version, asset_name) ==
    "https://github.com/JohnnyMorganz/luau-lsp/releases/latest/download/"
        \o asset_name

DownloadUrl(version, asset_name) ==
    "https://github.com/JohnnyMorganz/luau-lsp/releases/download/"
        \o version \o "/" \o asset_name

BinaryName(sys) == IF sys = "Windows" THEN "luau-lsp.exe" ELSE "luau-lsp"

\* the files and directories zip_ref.extractall(install_dir) leaves behind
ExtractedFiles(net, binary_name) ==
    IF net = "zip_top" THEN {InstallDir \o "/" \o binary_name}
    ELSE IF net = "zip_sub" THEN {SubDir \o "/" \o binary_name}
    ELSE {InstallDir \o "/README.md"}

ExtractedDirs(net) == IF net = "zip_sub" THEN {SubDir} ELSE {}

StartsWith(s, pre) == Len(s) >= Len(pre) /\ SubSeq(s, 1, Len(pre)) = pre
EndsWith(s, suf) ==
    Len(s) >= Len(suf) /\ SubSeq(s, Len(s) - Len(suf) + 1, Len(s)) = suf

\* install_dir.rglob(binary_name)
RGlob(fs, binary_name) ==
    {p \in fs : StartsWith(p, InstallDir \o "/") /\ EndsWith(p, "/" \o binary_name)}

Raised(err, fs, xb, ds, rq) ==
    [status |-> "raised", error |-> err, path |-> None,
     files |-> fs, xbit |-> xb, dirs |-> ds, reqs |-> rq]

ChmodOmitted(sys, xb, binary_path) == xb

\* binary_path.chmod(0o755) on non-Windows systems
Chmod(sys, xb, binary_path) ==
    IF sys # "Windows" THEN xb \cup {binary_path} ELSE xb

DownloadLuauLsp(sys, mach, fs, xb, ds, net) ==
    LET asset_name == AssetName(sys, mach)
    IN  IF asset_name = None
        THEN Raised(PlatformError(sys), fs, xb, ds, <<>>)
        ELSE
        LET download_url  == DownloadUrl(LUAU_LSP_VERSION, asset_name)
            ds1           == ds \cup {InstallDir}
            rq            == <<download_url>>
            download_path == InstallDir \o "/" \o asset_name
            fs1           == fs \cup {download_path}
        IN  IF net = "http_error" THEN Raised(ErrHTTP, fs, xb, ds1, rq)
            ELSE IF net = "bad_zip" THEN Raised(ErrZip, fs1, xb, ds1, rq)
            ELSE
            LET binary_name == BinaryName(sys)
                fs2  == (fs1 \cup ExtractedFiles(net, binary_name)) \ {download_path}
                ds2  == ds1 \cup ExtractedDirs(net)
                top  == InstallDir \o "/" \o binary_name
                cand == RGlob(fs2, binary_name)
                binary_path == IF top \in fs2 \/ cand = {} THEN top
                               ELSE CHOOSE c \in cand : TRUE
            IN  IF binary_path \notin fs2
                THEN Raised(ErrNotFound, fs2, xb, ds2, rq)
                ELSE [status |-> "ok", error |-> "", path |-> binary_path,
                      files |-> fs2, xbit |-> Chmod(sys, xb, binary_path),
                      dirs |-> ds2, reqs |-> rq]

(***************************************************************************)
(* Auxiliary asset fetcher: _download_roblox_definitions                   *)
(***************************************************************************)
FetchOutcomes == {"ok", "http_error", "write_error"}

FetchAssetAlways(path, url, fs, outcome) ==
    IF outcome = "ok"
    THEN [result |-> path, files |-> fs \cup {path}, reqs |-> <<url>>]
    ELSE IF outcome = "write_error"
    THEN [result |-> None, files |-> fs \cup {path}, reqs |-> <<url>>]
    ELSE [result |-> None, files |-> fs, reqs |-> <<url>>]

\* one asset: cached path if present, else a timed GET and a write;
\* every failure is caught, logged and yields None
FetchAsset(path, url, fs, outcome) ==
    IF path \in fs
    THEN [result |-> path, files |-> fs, reqs |-> <<>>]
    ELSE IF outcome = "ok"
    THEN [result |-> path, files |-> fs \cup {path}, reqs |-> <<url>>]
    ELSE IF outcome = "write_error"
    THEN [result |-> None, files |-> fs \cup {path}, reqs |-> <<url>>]
    ELSE [result |-> None, files |-> fs, reqs |-> <<url>>]

DownloadRobloxDefinitions(fs, ds, oDefs, oDocs) ==
    LET a == FetchAsset(DefinitionsPath, ROBLOX_TYPES_URL, fs, oDefs)
        b == FetchAsset(DocsPath, ROBLOX_DOCS_URL, a.files, oDocs)
    IN  [defs |-> a.result, docs |-> b.result, files |-> b.files,
         dirs |-> ds \cup {InstallDir}, reqs |-> a.reqs \o b.reqs]

(***************************************************************************)
(* _setup_runtime_dependency and the launch command of __init__            *)
(***************************************************************************)
SetupRuntimeDependency(sys, mach, fs, xb, ds, net, oDefs, oDocs) ==
    LET loc == GetLuauLspPath(sys, fs, xb)
        dl  == IF loc.path = None
               THEN DownloadLuauLsp(sys, mach, fs, xb, ds, net)
               ELSE [status |-> "ok", error |-> "", path |-> loc.path,
                     files |-> fs, xbit |-> xb, dirs |-> ds, reqs |-> <<>>]
        installs == IF loc.path = None THEN 1 ELSE 0
        src == IF loc.path = None THEN "installer" ELSE loc.src
    IN  IF dl.status = "raised"
        THEN [status |-> "raised", error |-> dl.error, binary |-> None,
              src |-> src, defs |-> None, docs |-> None,
              files |-> dl.files, xbit |-> dl.xbit, dirs |-> dl.dirs,
              reqs |-> dl.reqs, installs |-> installs, installed |-> None]
        ELSE LET r == DownloadRobloxDefinitions(dl.files, dl.dirs, oDefs, oDocs)
             IN  [status |-> "ok", error |-> "", binary |-> dl.path,
                  src |-> src, defs |-> r.defs, docs |-> r.docs,
                  files |-> r.files, xbit |-> dl.xbit, dirs |-> r.dirs,
                  reqs |-> dl.reqs \o r.reqs, installs |-> installs,
                  installed |-> IF installs = 1 THEN dl.path ELSE None]

BuildCmdFixedName(luau_lsp_path, definitions_path, docs_path) ==
    <<"luau-lsp", "lsp">>
        \o (IF definitions_path # None
            THEN <<"--definitions:@roblox=" \o definitions_path>> ELSE <<>>)
        \o (IF docs_path # None
            THEN <<"--docs=" \o docs_path>> ELSE <<>>)

BuildCmdDocsUnderDefs(luau_lsp_path, definitions_path, docs_path) ==
    <<luau_lsp_path, "lsp">>
        \o (IF definitions_path # None
            THEN <<"--definitions:@roblox=" \o definitions_path>>
                     \o (IF docs_path # None
                         THEN <<"--docs=" \o docs_path>> ELSE <<>>)
            ELSE <<>>)

BuildCmd(luau_lsp_path, definitions_path, docs_path) ==
    <<luau_lsp_path, "lsp">>
        \o (IF definitions_path # None
            THEN <<"--definitions:@roblox=" \o definitions_path>> ELSE <<>>)
        \o (IF docs_path # None
            THEN <<"--docs=" \o docs_path>> ELSE <<>>)

\* assets a call fetched over HTTP and returned as cached
NewlyFetched(reqs, defs, docs) ==
    {u \in Range(reqs) : \/ u = ROBLOX_TYPES_URL /\ defs # None
                         \/ u = ROBLOX_DOCS_URL /\ docs # None}

(***************************************************************************)
(* Initial states                                                          *)
(***************************************************************************)
Platforms ==
    { <<"Linux", "x86_64">>, <<"Linux", "AMD64">>, <<"Linux", "aarch64">>,
      <<"Darwin", "arm64">>, <<"Windows", "AMD64">>, <<"FreeBSD", "amd64">> }

\* the paths the code looks at on this platform
Universe(sys) ==
    Range(PossiblePaths(sys)) \cup Range(PathEntries(sys))
        \cup {SubDir \o "/" \o BinaryName(sys), DefinitionsPath, DocsPath}

DirsOf(fs) ==
    (IF \E p \in fs : StartsWith(p, InstallDir \o "/") THEN {InstallDir} ELSE {})
    \cup (IF \E p \in fs : StartsWith(p, SubDir \o "/") THEN {SubDir} ELSE {})

NoCall ==
    [op |-> "none", status |-> "none", error |-> "", binary |-> None,
     src |-> "none", defs |-> None, docs |-> None, reqs |-> <<>>,
     installs |-> 0, installed |-> None,
     answers |-> [bin |-> "none", defs |-> "none", docs |-> "none"]]

\* the record of a call of __init__: what _setup_runtime_dependency
\* returned and did, and what the network answered
InitCall(r, net, oDefs, oDocs) ==
    [op |-> "__init__", status |-> r.status, error |-> r.error,
     binary |-> r.binary, src |-> r.src, defs |-> r.defs, docs |-> r.docs,
     reqs |-> r.reqs, installs |-> r.installs, installed |-> r.installed,
     answers |-> [bin |-> net, defs |-> oDefs, docs |-> oDocs]]

InitEnv ==
    /\ \E pl \in Platforms : system = pl[1] /\ machine = pl[2]
    /\ files \in {fs \in SUBSET Universe(system) : Cardinality(fs) <= MaxInitFiles}
    /\ xbit \in SUBSET (files \ {DefinitionsPath, DocsPath})
    /\ dirs \in {DirsOf(files), DirsOf(files) \cup {InstallDir}}

InitStart ==
    /\ server_ready = FALSE
    /\ pc = "not_started"
    /\ handlers = {}
    /\ started = FALSE
    /\ init_response = {}
    /\ sent = <<>>
    /\ waitResult = "none"
    /\ nmsgs = 0
    /\ delivered = {}

Init ==
    /\ InitEnv
    /\ calls = 0
    /\ last = NoCall
    /\ fetched = {}
    /\ adapter = "none"
    /\ cmd = <<>>
    /\ InitStart

(***************************************************************************)
(* Construction path                                                       *)
(***************************************************************************)
\* The network and the archive answer only requests that are made: an
\* outcome is drawn where the call issues the request, a fixed one elsewhere.
NetChoices(sys, fs, xb) ==
    IF GetLuauLspPath(sys, fs, xb).path = None THEN BinOutcomes ELSE {"zip_top"}

FetchChoices(path, fs) == IF path \in fs THEN {"ok"} ELSE FetchOutcomes

\* LuauLanguageServer.__init__: a fresh adapter object
Construct ==
    /\ calls < MaxCalls
    /\ \E net \in NetChoices(system, files, xbit),
          oDefs \in FetchChoices(DefinitionsPath, files),
          oDocs \in FetchChoices(DocsPath, files) :
         \E r \in {SetupRuntimeDependency(system, machine, files, xbit, dirs,
                                           net, oDefs, oDocs)} :
             /\ files' = r.files
             /\ xbit' = r.xbit
             /\ dirs' = r.dirs
             /\ last' = InitCall(r, net, oDefs, oDocs)
             /\ fetched' = fetched \cup NewlyFetched(r.reqs, r.defs, r.docs)
             /\ adapter' = IF r.status = "ok" THEN "constructed" ELSE "failed"
             /\ cmd' = IF r.status = "ok"
                       THEN BuildCmd(r.binary, r.defs, r.docs) ELSE <<>>
    /\ calls' = calls + 1
    /\ server_ready' = FALSE
    /\ UNCHANGED <<envVars, pc, handlers, started, init_response, sent,
                   waitResult, nmsgs, delivered>>

\* a direct call of the static method _download_roblox_definitions
CallDownloadRobloxDefinitions ==
    /\ calls < MaxCalls
    /\ \E oDefs \in FetchChoices(DefinitionsPath, files),
          oDocs \in FetchChoices(DocsPath, files) :
         \E r \in {DownloadRobloxDefinitions(files, dirs, oDefs, oDocs)} :
             /\ files' = r.files
             /\ dirs' = r.dirs
             /\ last' = [op |-> "_download_roblox_definitions",
                         status |-> "ok", error |-> "", binary |-> None,
                         src |-> "none", defs |-> r.defs, docs |-> r.docs,
                         reqs |-> r.reqs, installs |-> 0,
                         installed |-> None,
                         answers |-> [bin |-> "none", defs |-> oDefs,
                                      docs |-> oDocs]]
             /\ fetched' = fetched \cup NewlyFetched(r.reqs, r.defs, r.docs)
    /\ calls' = calls + 1
    /\ UNCHANGED <<envVars, xbit, adapter, cmd, startVars>>

Next == Construct \/ CallDownloadRobloxDefinitions

Spec == Init /\ [][Next]_vars

(***************************************************************************)
(* _start_server of a constructed adapter                                  *)
(***************************************************************************)
RequiredCapabilities ==
    {"textDocumentSync", "definitionProvider", "documentSymbolProvider",
     "referencesProvider"}

\* capability keys a server may put in its initialize response
ServerCapabilities == RequiredCapabilities \cup {"hoverProvider"}

RegisteredMethodsNoLog ==
    {"client/registerCapability", "workspace/configuration",
     "$/progress", "textDocument/publishDiagnostics"}

RegisteredMethods ==
    {"client/registerCapability", "workspace/configuration",
     "window/logMessage", "$/progress", "textDocument/publishDiagnostics"}

\* the adapter as __init__ leaves it: binary found on PATH, assets fetched
\* or not as the network decided
StartInit ==
    /\ \E pl \in Platforms : system = pl[1] /\ machine = pl[2]
    /\ \E oDefs \in FetchOutcomes, oDocs \in FetchOutcomes :
         \E r \in {SetupRuntimeDependency(system, machine,
                                           {PathEntries(system)[2]},
                                           {PathEntries(system)[2]}, {},
                                           "zip_top", oDefs, oDocs)} :
             /\ files = r.files
             /\ xbit = r.xbit
             /\ dirs = r.dirs
             /\ last = InitCall(r, "zip_top", oDefs, oDocs)
             /\ fetched = NewlyFetched(r.reqs, r.defs, r.docs)
             /\ cmd = BuildCmd(r.binary, r.defs, r.docs)
    /\ calls = 1
    /\ adapter = "constructed"
    /\ InitStart

\* lines 353-357: the five on_request / on_notification registrations
RegisterHandlers ==
    /\ adapter = "constructed"
    /\ pc = "not_started"
    /\ handlers' = RegisteredMethods
    /\ pc' = "registered"
    /\ UNCHANGED <<envVars, fsVars, setupVars, server_ready, started,
                   init_response, sent, waitResult, nmsgs, delivered>>

\* line 360: self.server.start()
StartProcess ==
    /\ pc = "registered"
    /\ started' = TRUE
    /\ pc' = "started"
    /\ UNCHANGED <<envVars, fsVars, setupVars, server_ready, handlers,
                   init_response, sent, waitResult, nmsgs, delivered>>

\* line 360: self.server.start() raises (the process cannot be launched)
StartProcessRaises ==
    /\ pc = "registered"
    /\ pc' = "failed"
    /\ UNCHANGED <<envVars, fsVars, setupVars, server_ready, handlers,
                   started, init_response, sent, waitResult, nmsgs,
                   delivered>>

\* line 364: the initialize request and the response the server chooses
SendInitialize ==
    /\ pc = "started"
    /\ sent' = Append(sent, "initialize")
    /\ \E caps \in SUBSET ServerCapabilities : init_response' = caps
    /\ pc' = "initialize_returned"
    /\ UNCHANGED <<envVars, fsVars, setupVars, server_ready, handlers,
                   started, waitResult, nmsgs, delivered>>

\* line 364: the request is written but send.initialize raises (error
\* response, or the server exits)
SendInitializeRaises ==
    /\ pc = "started"
    /\ sent' = Append(sent, "initialize")
    /\ pc' = "failed"
    /\ UNCHANGED <<envVars, fsVars, setupVars, server_ready, handlers,
                   started, init_response, waitResult, nmsgs, delivered>>

CapabilitiesPresentThree(caps) ==
    {"textDocumentSync", "definitionProvider", "documentSymbolProvider"}
        \subseteq caps

CapabilitiesPresent(caps) == RequiredCapabilities \subseteq caps

\* lines 367-370: the four assertions on init_response["capabilities"]
CheckCapabilities ==
    /\ pc = "initialize_returned"
    /\ pc' = IF CapabilitiesPresent(init_response)
             THEN "capabilities_ok" ELSE "failed"
    /\ UNCHANGED <<envVars, fsVars, setupVars, server_ready, handlers,
                   started, init_response, sent, waitResult, nmsgs, delivered>>

\* line 372: self.server.notify.initialized({})
NotifyInitialized ==
    /\ pc = "capabilities_ok"
    /\ sent' = Append(sent, "initialized")
    /\ pc' = "waiting"
    /\ UNCHANGED <<envVars, fsVars, setupVars, server_ready, handlers,
                   started, init_response, waitResult, nmsgs, delivered>>

\* line 372: notify.initialized raises (the pipe to the server is closed)
NotifyInitializedRaises ==
    /\ pc = "capabilities_ok"
    /\ pc' = "failed"
    /\ UNCHANGED <<envVars, fsVars, setupVars, server_ready, handlers,
                   started, init_response, sent, waitResult, nmsgs,
                   delivered>>

\* line 376-377: wait() returns True, the flag is set
WaitReturnsTrue ==
    /\ pc = "waiting"
    /\ server_ready
    /\ waitResult' = "ready"
    /\ pc' = "returned"
    /\ UNCHANGED <<envVars, fsVars, setupVars, server_ready, handlers,
                   started, init_response, sent, nmsgs, delivered>>

\* line 376: the 5.0 s elapse with the flag unset, wait() returns False
WaitTimesOut ==
    /\ pc = "waiting"
    /\ ~server_ready
    /\ waitResult' = "timeout"
    /\ pc' = "timed_out"
    /\ UNCHANGED <<envVars, fsVars, setupVars, server_ready, handlers,
                   started, init_response, sent, nmsgs, delivered>>

TimeoutRaises == "failed"

\* where the else branch of the wait leaves the startup thread
TimeoutProceeds == "returned"

\* self.server_ready.set()
EventSet(flag) == TRUE

\* lines 379-380: warn, set the flag, return
ProceedAfterTimeout ==
    /\ pc = "timed_out"
    /\ server_ready' = EventSet(server_ready)
    /\ pc' = TimeoutProceeds
    /\ UNCHANGED <<envVars, fsVars, setupVars, handlers, started,
                   init_response, sent, waitResult, nmsgs, delivered>>

\* window/logMessage payloads; has_message = FALSE is a dict without the key
LogTexts == {"Luau LSP: Workspace Ready", "server initialized",
             "Indexing workspace"}

LogMessages ==
    {[has_message |-> TRUE, message |-> t] : t \in LogTexts}
        \cup {[has_message |-> FALSE, message |-> ""]}

\* msg.get("message", "")
MsgGet(msg) == IF msg.has_message THEN msg.message ELSE ""

SignalsReadinessCaseSensitive(message_text) ==
    \/ Contains(message_text, "workspace ready")
    \/ Contains(message_text, "initialized")

SignalsReadiness(message_text) ==
    \/ Contains(Lower(message_text), "workspace ready")
    \/ Contains(Lower(message_text), "initialized")

FlagFollowsMessage(flag, message_text) == SignalsReadiness(message_text)

\* the flag after window_log_message has handled message_text
FlagAfterMessage(flag, message_text) ==
    IF SignalsReadiness(message_text) THEN EventSet(flag) ELSE flag

\* where the startup thread is relative to server_ready.wait
WaitPhase(at) ==
    IF at \in {"not_started", "registered", "started", "initialize_returned",
               "capabilities_ok"} THEN "before_wait"
    ELSE IF at = "waiting" THEN "in_wait"
    ELSE "after_wait"

\* a window/logMessage notification read by the client's reader thread:
\* window_log_message runs if it is registered, else the message is dropped
WindowLogMessage ==
    /\ started
    /\ nmsgs < MaxMsgs
    /\ \E msg \in LogMessages :
         /\ server_ready' = IF "window/logMessage" \in handlers
                            THEN FlagAfterMessage(server_ready, MsgGet(msg))
                            ELSE server_ready
         /\ delivered' = delivered \cup {[msg |-> msg, at |-> WaitPhase(pc)]}
    /\ nmsgs' = nmsgs + 1
    /\ UNCHANGED <<envVars, fsVars, setupVars, pc, handlers, started,
                   init_response, sent, waitResult>>

StartupThread ==
    \/ RegisterHandlers
    \/ StartProcess
    \/ StartProcessRaises
    \/ SendInitialize
    \/ SendInitializeRaises
    \/ CheckCapabilities
    \/ NotifyInitialized
    \/ NotifyInitializedRaises
    \/ WaitReturnsTrue
    \/ WaitTimesOut
    \/ ProceedAfterTimeout

StartNext == StartupThread \/ WindowLogMessage

StartSpec == StartInit /\ [][StartNext]_vars

\* the startup thread is scheduled, and the wait is bounded by its timeout
LiveSpec == StartSpec /\ WF_vars(StartupThread)

(***************************************************************************)
(* Properties                                                              *)
(***************************************************************************)
\* a call of __init__ is the step being taken
ConstructStep == calls' # calls /\ last'.op = "__init__"

\* the PATH lookup fails and no well-known path of this OS exists
NoBinaryAnywhere ==
    /\ \A i \in 1..Len(PathDirs) :
         ~Executable(system, files, xbit, PathEntries(system)[i])
    /\ \A p \in Range(PossiblePaths(system)) : p \notin files

AssetUrls == {ROBLOX_TYPES_URL, ROBLOX_DOCS_URL}

\* C1: when the PATH lookup for luau-lsp succeeds, the construction returns
\* exactly that path as the binary path, the installer is not invoked and no
\* binary download request is made.
C1_PathHitSkipsInstaller ==
    [][ (ConstructStep /\ Which(system, files, xbit) # None)
        => /\ last'.status = "ok"
           /\ last'.binary = Which(system, files, xbit)
           /\ last'.installs = 0
           /\ Range(last'.reqs) \subseteq AssetUrls ]_vars

C1_Witness ==
    /\ last.op = "__init__"
    /\ last.src = "PATH"
    /\ last.binary \in Range(PathEntries(system))
    /\ \E p \in Range(PossiblePaths(system)) : p \in files /\ p # last.binary
    /\ cmd[1] = last.binary

\* C2: with no binary on PATH nor at any well-known path of the OS, the
\* construction invokes the installer exactly once, and when it succeeds the
\* path the installer returned is the first element of the launch command,
\* followed by "lsp".
C2_InstallerOnceAndVerbatim ==
    [][ (ConstructStep /\ NoBinaryAnywhere)
        => /\ last'.installs = 1
           /\ last'.src = "installer"
           /\ (last'.status = "ok")
                => /\ adapter' = "constructed"
                   /\ last'.installed # None
                   /\ Len(cmd') >= 2
                   /\ cmd'[1] = last'.installed
                   /\ cmd'[2] = "lsp" ]_vars

C2_Witness ==
    /\ last.op = "__init__"
    /\ last.installs = 1
    /\ adapter = "constructed"
    /\ last.installed = SubDir \o "/luau-lsp"
    /\ cmd[1] = last.installed
    /\ cmd[2] = "lsp"

UnsupportedPlatform ==
    \/ system = "Linux" /\ Lower(machine) \notin {"x86_64", "amd64"}
    \/ system \notin {"Linux", "Darwin", "Windows"}

\* C3: on an unsupported platform (Linux that is neither x86_64 nor amd64,
\* or an OS other than Linux, Darwin, Windows) the installation raises, the
\* error reaches the caller of the constructor, and up to that point no HTTP
\* request was issued and no directory or file was created.
C3_UnsupportedFailsBeforeNetwork ==
    [][ (ConstructStep /\ NoBinaryAnywhere /\ UnsupportedPlatform)
        => /\ last'.status = "raised"
           /\ last'.error \in {ErrLinuxArch, ErrOS}
           /\ adapter' = "failed"
           /\ last'.reqs = <<>>
           /\ files' = files /\ dirs' = dirs /\ xbit' = xbit ]_vars

C3_Witness ==
    /\ last.op = "__init__"
    /\ system = "Linux"
    /\ machine = "aarch64"
    /\ last.status = "raised"
    /\ last.error = ErrLinuxArch
    /\ last.reqs = <<>>
    /\ InstallDir \notin dirs
    /\ adapter = "failed"

AssetPath(u) == IF u = ROBLOX_TYPES_URL THEN DefinitionsPath ELSE DocsPath
AssetResult(c, u) == IF u = ROBLOX_TYPES_URL THEN c.defs ELSE c.docs

\* C4: once a call of _download_roblox_definitions has fetched and cached
\* an asset, every later call returns the cached path for that asset and
\* issues no HTTP request for it, whatever happens to the other asset.
C4_CachedAssetNotRefetched ==
    [][ (calls' # calls /\ last'.status = "ok")
        => \A u \in fetched :
             /\ u \notin Range(last'.reqs)
             /\ AssetResult(last', u) = AssetPath(u) ]_vars

C4_Witness ==
    /\ calls >= 2
    /\ ROBLOX_TYPES_URL \in fetched
    /\ last.status = "ok"
    /\ last.defs = DefinitionsPath
    /\ last.reqs = <<ROBLOX_DOCS_URL>>
    /\ last.docs = None

InitializeAnswered == "initialize" \in Range(sent)

MissingRequiredCapability ==
    \/ "textDocumentSync" \notin init_response
    \/ "definitionProvider" \notin init_response
    \/ "documentSymbolProvider" \notin init_response
    \/ "referencesProvider" \notin init_response

\* C5: when the initialize response lacks any of the four required
\* capability keys, _start_server fails: it never gets past the capability
\* check, "initialized" is never sent and the readiness wait is never entered.
C5_MissingCapabilityAborts ==
    (InitializeAnswered /\ MissingRequiredCapability)
        => /\ pc \in {"initialize_returned", "failed"}
           /\ "initialized" \notin Range(sent)
           /\ waitResult = "none"

C5_Witness ==
    /\ pc = "failed"
    /\ init_response = ServerCapabilities \ {"referencesProvider"}
    /\ sent = <<"initialize">>

\* C6: once the capability check has passed and "initialized" has been sent,
\* _start_server eventually returns normally, with or without a readiness
\* log message; the timeout is not an error.
C6_StartupReturns ==
    (pc = "waiting" /\ "initialized" \in Range(sent)) ~> (pc = "returned")

C6_Witness ==
    /\ pc = "returned"
    /\ waitResult = "timeout"
    /\ nmsgs = 0
    /\ sent = <<"initialize", "initialized">>

\* C7: server_ready is unset until the startup begins and, once set, stays
\* set under every interleaving of log messages with the startup thread.
C7_ReadyNeverResets ==
    /\ [](pc = "not_started" => ~server_ready)
    /\ [][server_ready => server_ready']_vars

C7_Witness ==
    /\ server_ready
    /\ waitResult = "ready"
    /\ pc = "returned"
    /\ nmsgs >= 2

Resolved == last.op = "__init__" /\ last.status = "ok"

\* C8 (as stated): every resolved binary path names an existing file that
\* has the executable permission.
C8_ResolvedIsExecutable ==
    Resolved => Executable(system, files, xbit, last.binary)

\* C8 (amended): every resolved binary path names an existing path; it is
\* executable when it came from the PATH lookup or from the installer (on
\* Windows, which has no execute bit, existence suffices); a path taken from
\* a well-known install directory is only known to exist.
C8_ResolvedExists ==
    Resolved
        => /\ last.binary \in files
           /\ last.src \in {"PATH", "known", "installer"}
           /\ (last.src \in {"PATH", "installer"})
                => Executable(system, files, xbit, last.binary)

C8_Witness ==
    /\ Resolved
    /\ last.src = "installer"
    /\ system # "Windows"
    /\ last.binary \in files
    /\ last.binary \in xbit

DefinitionsArg == "--definitions:@roblox=" \o DefinitionsPath
DocsArg        == "--docs=" \o DocsPath

Failed(answer) == answer \in {"http_error", "write_error"}

\* C9: a failed fetch of the type definitions and/or the API docs is not
\* fatal: the fetcher returns None for exactly the assets whose fetch failed
\* and still handles the other asset, the construction succeeds, and the
\* launch command is <binary> lsp, then --definitions:@roblox=<path> iff the
\* definitions are present, then --docs=<path> iff the docs are present.
C9_AssetFailureDegrades ==
    Resolved
        => /\ adapter = "constructed"
           /\ (last.defs = None)
                <=> (ROBLOX_TYPES_URL \in Range(last.reqs)
                        /\ Failed(last.answers.defs))
           /\ (last.docs = None)
                <=> (ROBLOX_DOCS_URL \in Range(last.reqs)
                        /\ Failed(last.answers.docs))
           /\ last.defs \in {None, DefinitionsPath}
           /\ last.docs \in {None, DocsPath}
           /\ Len(cmd) = 2 + (IF last.defs # None THEN 1 ELSE 0)
                           + (IF last.docs # None THEN 1 ELSE 0)
           /\ cmd[1] = last.binary
           /\ cmd[2] = "lsp"
           /\ (DefinitionsArg \in Range(cmd)) <=> (last.defs # None)
           /\ (DocsArg \in Range(cmd)) <=> (last.docs # None)
           /\ (last.defs # None) => cmd[3] = DefinitionsArg
           /\ (last.docs # None) => cmd[Len(cmd)] = DocsArg

C9_Witness ==
    /\ Resolved
    /\ adapter = "constructed"
    /\ last.answers.defs = "http_error"
    /\ last.defs = None
    /\ last.reqs = <<ROBLOX_TYPES_URL, ROBLOX_DOCS_URL>>
    /\ last.docs = DocsPath
    /\ cmd = <<last.binary, "lsp", DocsArg>>

ReleaseUrl(asset) ==
    "https://github.com/JohnnyMorganz/luau-lsp/releases/download/1.57.1/"
        \o asset

\* C10: whenever the installer issues its download, the URL is the pinned
\* 1.57.1 release URL ending in luau-lsp-linux-x86_64.zip on Linux
\* x86_64/amd64, luau-lsp-macos.zip on Darwin and luau-lsp-win64.zip on
\* Windows; it is a function of the OS and the architecture alone.
C10_DocumentedAsset ==
    (last.op = "__init__" /\ last.installs = 1)
        => /\ (system = "Linux" /\ Lower(machine) \in {"x86_64", "amd64"})
                => /\ last.reqs # <<>>
                   /\ last.reqs[1] = ReleaseUrl("luau-lsp-linux-x86_64.zip")
           /\ (system = "Darwin")
                => /\ last.reqs # <<>>
                   /\ last.reqs[1] = ReleaseUrl("luau-lsp-macos.zip")
           /\ (system = "Windows")
                => /\ last.reqs # <<>>
                   /\ last.reqs[1] = ReleaseUrl("luau-lsp-win64.zip")
           /\ \A u \in Range(last.reqs) :
                u \in AssetUrls \/ u = last.reqs[1]

C10_Witness ==
    /\ last.op = "__init__"
    /\ last.installs = 1
    /\ system = "Linux"
    /\ machine = "AMD64"
    /\ last.reqs[1] = ReleaseUrl("luau-lsp-linux-x86_64.zip")
    /\ last.status = "ok"

FiveHandlers ==
    {"client/registerCapability", "workspace/configuration",
     "window/logMessage", "$/progress", "textDocument/publishDiagnostics"}

FourCapabilities ==
    {"textDocumentSync", "definitionProvider", "documentSymbolProvider",
     "referencesProvider"}

\* the steps of _start_server in source order, each with its failure exit
StartupSteps ==
    { <<"not_started", "registered">>,
      <<"registered", "started">>,          <<"registered", "failed">>,
      <<"started", "initialize_returned">>, <<"started", "failed">>,
      <<"initialize_returned", "capabilities_ok">>,
      <<"initialize_returned", "failed">>,
      <<"capabilities_ok", "waiting">>,     <<"capabilities_ok", "failed">>,
      <<"waiting", "returned">>,            <<"waiting", "timed_out">>,
      <<"timed_out", "returned">> }

StartupOrder ==
    /\ started => FiveHandlers \subseteq handlers
    /\ ("initialize" \in Range(sent)) => started
    /\ ("initialized" \in Range(sent))
         => /\ sent = <<"initialize", "initialized">>
            /\ FourCapabilities \subseteq init_response
    /\ (pc \in {"waiting", "timed_out", "returned"})
         => "initialized" \in Range(sent)
    /\ (waitResult # "none") => "initialized" \in Range(sent)
    /\ (pc = "failed") => /\ "initialized" \notin Range(sent)
                          /\ waitResult = "none"

\* C11: _start_server runs its steps in the fixed order: the five handlers
\* are registered before the subprocess is started, the subprocess is started
\* before initialize is sent, the capability check passes before initialized
\* is sent, the wait begins only after initialized; every move of the startup
\* thread is the next step or the failure exit, and after a failure the
\* startup thread does nothing more.
C11_FixedStartupOrder ==
    /\ []StartupOrder
    /\ [][ /\ (pc' # pc) => <<pc, pc'>> \in StartupSteps
           /\ (pc = "failed")
                => /\ pc' = "failed"
                   /\ handlers' = handlers
                   /\ started' = started
                   /\ sent' = sent
                   /\ waitResult' = waitResult ]_vars

C11_Witness ==
    /\ pc = "returned"
    /\ handlers = FiveHandlers
    /\ started
    /\ sent = <<"initialize", "initialized">>
    /\ FourCapabilities \subseteq init_response
    /\ waitResult = "ready"

\* a delivered notification whose text contains "workspace ready" or
\* "initialized", case-insensitively
IsReadinessSignal(d) ==
    /\ d.msg.has_message
    /\ \/ Contains(Lower(d.msg.message), "workspace ready")
       \/ Contains(Lower(d.msg.message), "initialized")

SignalledBeforeWaitEnds ==
    \E d \in delivered :
        d.at \in {"before_wait", "in_wait"} /\ IsReadinessSignal(d)

SignalledAtAnyPoint == \E d \in delivered : IsReadinessSignal(d)

\* C12 (as stated): a matching log message delivered at any point after the
\* start is seen by the wait, so the startup takes the ready branch and not
\* the timeout branch; on every normal return the readiness flag is set.
C12_AnySignalObserved ==
    /\ (waitResult = "timeout") => ~SignalledAtAnyPoint
    /\ (pc = "returned" /\ SignalledAtAnyPoint) => waitResult = "ready"
    /\ (pc = "returned") => server_ready

\* C12 (amended): a matching log message delivered after the subprocess
\* started and before the wait ends, also one delivered before the startup
\* thread reaches the wait, is seen by the wait: the startup never takes the
\* timeout branch after such a message. A message that arrives only after
\* the timeout has elapsed is not seen. On every normal return the readiness
\* flag is set.
C12_NoLostReadinessSignal ==
    /\ (waitResult = "timeout") => ~SignalledBeforeWaitEnds
    /\ (pc = "returned" /\ SignalledBeforeWaitEnds) => waitResult = "ready"
    /\ (pc = "returned") => server_ready

C12_Witness ==
    /\ pc = "returned"
    /\ waitResult = "ready"
    /\ server_ready
    /\ delivered = {[msg |-> [has_message |-> TRUE,
                              message |-> "Luau LSP: Workspace Ready"],
                     at |-> "before_wait"]}

====
